---- MODULE Spec2Model ----
(***************************************************************************)
(* Dependency-ordered execution of repartition tasks (citus).              *)
(*                                                                         *)
(* The repository holds two versions of the entry point                    *)
(* ExecuteDependedTasks:                                                   *)
(*   - executor/repartition_logic.c            ("repartition_logic")       *)
(*   - executor/adaptive_executor_repartioning.c ("adaptive_executor")     *)
(* Both are modelled; the variable `variant` says which one runs.  The     *)
(* scheduler ExecuteTasksInDependencyOrder is the one of                   *)
(* adaptive_executor_repartioning.c (the only definition in the sources).  *)
(*                                                                         *)
(* A Task object is a handle in TaskIds; `task` is the heap of Task        *)
(* structs.  A List is a sequence.  A formatted command string is the      *)
(* sequence of its statements, each statement the tuple of its template    *)
(* and the arguments substituted into it, in order.                        *)
(***************************************************************************)
EXTENDS Integers, Sequences, FiniteSets, TLC

VARIABLES
    variant,               \* which source file's ExecuteDependedTasks runs
    assertChecking,        \* build flag: are Assert()s compiled in
    modificationsDone,     \* XactModificationLevel > XACT_MODIFICATION_NONE
    nodeLists,             \* the lists ActiveReadableNodeList() may return in this run
    taskAndExecutionList,  \* what TaskAndExecutionList(topLevelTasks) returns
    task,                  \* heap: handle -> Task struct
    topLevelTasks,         \* argument of ExecuteDependedTasks
    allTasks,              \* local of ExecuteDependedTasks
    mapOutputFetchTasks,   \* local of ExecuteDependedTasks (adaptive_executor)
    mergeTasks,            \* local of ExecuteDependedTasks
    jobIds,                \* local of ExecuteDependedTasks / CreateTemporarySchemas
    stmt,                  \* index of the statement of ExecuteDependedTasks in progress
    step,                  \* position inside that statement
    status,                \* "running", "returned", "error", "crashed"
    errorKind,             \* which ereport(ERROR) ended the run
    fetchIdx,              \* foreach position in PutMapOutputFetchQueryStrings
    commandList,           \* argument of SendCommandToAllWorkers
    workerNodeList,        \* local of SendCommandToAllWorkers
    toSend,                \* rest of the foreach over workerNodeList
    completedTasks,        \* HTAB of TaskHashKey
    curTasks,              \* local of ExecuteTasksInDependencyOrder
    calls,                 \* history: calls made to the external collaborators
    entry,                 \* the entry point this backend executes
    activeNodes,           \* the list ActiveReadableNodeList() returns now
    schemas,               \* worker side: the job ids that have a job schema, per worker
    scanLog,               \* history: the completed set before each scan, and what it found
    outstanding,           \* batches given to ExecuteTaskList that has not returned yet
    writes,                \* history: the tasks whose queryString was assigned, in order
    self,                  \* the backend whose variables these are
    other                  \* the suspended backends that run concurrently

vars == <<variant, assertChecking, modificationsDone, nodeLists, taskAndExecutionList,
          task, topLevelTasks, allTasks, mapOutputFetchTasks, mergeTasks, jobIds,
          stmt, step, status, errorKind, fetchIdx, commandList, workerNodeList,
          toSend, completedTasks, curTasks, calls, entry, activeNodes, schemas, scanLog,
          outstanding, writes, self, other>>

(***************************************************************************)
(* Bounds of the model.                                                    *)
(***************************************************************************)
MaxTasks == 4          \* Task objects in a run
MaxEdges == 3          \* dependedTaskList entries in a generated graph
MaxWorkers == 2        \* worker nodes of the cluster
MaxPlacements == 2     \* entries of a taskPlacementList
MaxSweeps == 2         \* calls of CleanUpSchemas in a row

TaskIds == 1..MaxTasks
Workers == 1..MaxWorkers
JobIdValues == {5, 7, 9}
NodeNames == <<"node-a", "node-b", "node-c", "node-d">>

(***************************************************************************)
(* Generic list helpers (pg_list.h).                                       *)
(***************************************************************************)
Range(s) == {s[i] : i \in DOMAIN s}

NIL == <<>>

lappend(list, x) == Append(list, x)

list_make1(x) == <<x>>

linitial(list) == list[1]

list_length(list) == Len(list)

RECURSIVE Flatten(_)
Flatten(lists) == IF lists = <<>> THEN <<>> ELSE Head(lists) \o Flatten(Tail(lists))

RECURSIVE SeqsNoDup(_, _)
SeqsNoDup(S, k) ==
    IF k = 0 THEN {<<>>}
    ELSE LET shorter == SeqsNoDup(S, k - 1)
         IN shorter \cup
            {Append(p[1], p[2]) : p \in {q \in shorter \X S : q[2] \notin Range(q[1])}}

RECURSIVE SubsetsUpTo(_, _)
SubsetsUpTo(S, k) ==
    IF k = 0 THEN {{}}
    ELSE LET smaller == SubsetsUpTo(S, k - 1)
         IN smaller \cup {p[1] \cup {p[2]} : p \in smaller \X S}

RECURSIVE SortedSeq(_)
SortedSeq(S) ==
    IF S = {} THEN <<>>
    ELSE LET m == CHOOSE x \in S : \A y \in S : x <= y
         IN <<m>> \o SortedSeq(S \ {m})

(***************************************************************************)
(* Entities: ShardPlacement, WorkerNode, Task.                             *)
(***************************************************************************)
ShardPlacement(i) == [nodeName |-> NodeNames[i], nodePort |-> 5432 + i]

WorkerNode(w) == [workerName |-> NodeNames[w], workerPort |-> 5432 + w]

AllNodeLists == SeqsNoDup({WorkerNode(w) : w \in Workers}, MaxWorkers)

FullNodeList == [w \in Workers |-> WorkerNode(w)]

PlacementLists == SeqsNoDup({ShardPlacement(i) : i \in 1..MaxPlacements}, MaxPlacements)

Task(jobId, taskId, taskType, deps, placements, partitionId, upstreamTaskId) ==
    [jobId |-> jobId, taskId |-> taskId, taskType |-> taskType,
     dependedTaskList |-> deps, taskPlacementList |-> placements,
     partitionId |-> partitionId, upstreamTaskId |-> upstreamTaskId,
     queryString |-> <<<<"planner query", jobId, taskId>>>>]

(***************************************************************************)
(* The inputs of a run: the Task heap built by the planner, the top level  *)
(* tasks, the expanded task list, and the environment.  Seven families,    *)
(* each varying one part of the input.                                     *)
(***************************************************************************)
WorkerNames == {NodeNames[w] : w \in Workers}

\* No worker has a job schema.
NoSchemas == [w \in WorkerNames |-> {}]

Input(heap, top, expanded, lists, modified, asserts) ==
    [task |-> heap, topLevelTasks |-> top, taskAndExecutionList |-> expanded,
     nodeLists |-> lists, modificationsDone |-> modified, assertChecking |-> asserts,
     entry |-> "ExecuteDependedTasks", schemas |-> NoSchemas, concurrent |-> <<>>]

\* Dependency graphs: task 1 is the top level task and depends on task 2;
\* the collection is 1..n in scan order; an edge <<t, d>> puts d on the
\* dependedTaskList of t, a task that is not the top level task.  With
\* n < MaxTasks the last Task object is outside the collection.
GraphEdges(n) == {e \in (2..n) \X TaskIds : e[1] # e[2]}

GraphTask(E, t) ==
    LET deps == IF t = 1 THEN <<2>> ELSE SortedSeq({d \in TaskIds : <<t, d>> \in E})
    IN Task(IF t % 2 = 0 THEN 5 ELSE 7, (t + 1) \div 2,
            IF t = 1 THEN "SQL_TASK" ELSE IF deps = <<>> THEN "MAP_TASK" ELSE "MERGE_TASK",
            deps, <<ShardPlacement(1)>>, 0, 0)

GraphInputs ==
    {Input([t \in TaskIds |-> GraphTask(E, t)], <<1>>, [i \in 1..n |-> i],
           {FullNodeList}, FALSE, FALSE) :
        <<n, E>> \in UNION {{<<m, F>> : F \in SubsetsUpTo(GraphEdges(m), MaxEdges)} :
                            m \in {MaxTasks - 1, MaxTasks}}}

\* Job ids: the top level task depends on every other task; the other tasks
\* are merge or map tasks of any job.
JobTask(kind, t) ==
    IF t = 1 THEN Task(5, 1, "SQL_TASK", [i \in 1..(MaxTasks - 1) |-> i + 1],
                       <<ShardPlacement(1)>>, 0, 0)
    ELSE Task(kind[t][2], t, kind[t][1], <<>>, <<ShardPlacement(1)>>, 0, 0)

JobInputs ==
    {Input([t \in TaskIds |-> JobTask(kind, t)], <<1>>, [i \in TaskIds |-> i],
           {FullNodeList}, FALSE, FALSE) :
        kind \in [TaskIds \ {1} -> {"MERGE_TASK", "MAP_TASK"} \X JobIdValues]}

\* Fetch tasks: 1 is the top level task, 2 a merge task waiting for the fetch
\* task 3, the tasks from 4 on are map tasks.
FetchTask(deps, placements, partitionId, t) ==
    IF t = 1 THEN Task(5, 1, "SQL_TASK", <<2>>, <<ShardPlacement(1)>>, 0, 0)
    ELSE IF t = 2 THEN Task(5, 2, "MERGE_TASK", <<3>>, <<ShardPlacement(1)>>, 0, 0)
    ELSE IF t = 3 THEN Task(5, 3, "MAP_OUTPUT_FETCH_TASK", deps,
                            <<ShardPlacement(1)>>, partitionId, 2)
    ELSE Task(IF t % 2 = 0 THEN 7 ELSE 9, t, "MAP_TASK", <<>>, placements, 0, 0)

\* The expanded collection holds every task, or (with one placement list)
\* every task but the last map task, which a fetch task may still name as
\* its dependency.
FetchInputs ==
    {Input([t \in TaskIds |-> FetchTask(x[1], x[2], x[3], t)], <<1>>,
           [i \in 1..x[5] |-> i], {FullNodeList}, FALSE, x[4]) :
        x \in (SeqsNoDup(TaskIds \ {1, 3}, 2) \X PlacementLists \X {0, 1} \X BOOLEAN
                   \X {MaxTasks})
               \cup (SeqsNoDup(TaskIds \ {1, 3}, 2) \X {<<ShardPlacement(1)>>} \X {0}
                        \X BOOLEAN \X {MaxTasks - 1})}

\* Cluster: one fixed job, any membership list at each broadcast, with and
\* without an earlier modification in the transaction.
ClusterTask(t) ==
    IF t = 1 THEN Task(5, 1, "SQL_TASK", <<2>>, <<ShardPlacement(1)>>, 0, 0)
    ELSE IF t = 2 THEN Task(5, 2, "MERGE_TASK", [i \in 1..(MaxTasks - 2) |-> i + 2],
                            <<ShardPlacement(1)>>, 0, 0)
    ELSE Task(7, t, "MERGE_TASK", <<>>, <<ShardPlacement(1)>>, 0, 0)

ClusterInputs ==
    {Input([t \in TaskIds |-> ClusterTask(t)], <<1>>, [i \in TaskIds |-> i],
           AllNodeLists, modified, FALSE) : modified \in BOOLEAN}

\* Sweeps: a backend that calls CleanUpSchemas MaxSweeps times in a row, on
\* workers that hold job schemas left by earlier runs, or none.
LeftoverSchemas == [WorkerNames -> {{}, {5, 7}}]

\* The membership during the sweeps: every worker, the first only, or none.
SweepNodeLists == {FullNodeList, SubSeq(FullNodeList, 1, 1), NIL}

SweepInputs ==
    {[Input([t \in TaskIds |-> ClusterTask(t)], <<1>>, [i \in TaskIds |-> i],
            SweepNodeLists, FALSE, FALSE)
        EXCEPT !.entry = "CleanUpSchemas", !.schemas = left] : left \in LeftoverSchemas}

\* Two backends at once: each runs ExecuteDependedTasks on its own job, the
\* jobs have no job id in common, the workers are shared.
\* Fan-in: every task between the top level task and the last one is a
\* fetch task or a merge task that depends on the last one, a map task.  The
\* collection lists the tasks in the order of their ids or in reverse.
FanInTask(kind, t) ==
    IF t = 1 THEN Task(5, 1, "SQL_TASK", <<2>>, <<ShardPlacement(1)>>, 0, 0)
    ELSE IF t = MaxTasks THEN Task(7, t, "MAP_TASK", <<>>, <<ShardPlacement(1)>>, 0, 0)
    ELSE Task(5, t, kind[t], <<MaxTasks>>, <<ShardPlacement(1)>>, t, MaxTasks)

Reverse(list) == [i \in DOMAIN list |-> list[Len(list) + 1 - i]]

FanInInputs ==
    {Input([t \in TaskIds |-> FanInTask(kind, t)], <<1>>, order,
           {FullNodeList}, FALSE, FALSE) :
        <<kind, order>> \in [2..(MaxTasks - 1) -> {"MAP_OUTPUT_FETCH_TASK", "MERGE_TASK"}]
                               \X {[i \in TaskIds |-> i], Reverse([i \in TaskIds |-> i])}}

ConcurrentTask(firstJobId, t) ==
    IF t = 1 THEN Task(firstJobId, 1, "SQL_TASK", <<2>>, <<ShardPlacement(1)>>, 0, 0)
    ELSE IF t = 2 THEN Task(firstJobId + 2, 2, "MERGE_TASK",
                            [i \in 1..(MaxTasks - 2) |-> i + 2], <<ShardPlacement(1)>>, 0, 0)
    ELSE Task(firstJobId + 4, t, "MERGE_TASK", <<>>, <<ShardPlacement(1)>>, 0, 0)

ConcurrentInput(firstJobId) ==
    Input([t \in TaskIds |-> ConcurrentTask(firstJobId, t)], <<1>>, [i \in TaskIds |-> i],
          {FullNodeList}, FALSE, FALSE)

ConcurrentInputs == {[ConcurrentInput(1) EXCEPT !.concurrent = <<ConcurrentInput(11)>>]}

Inputs == GraphInputs \cup JobInputs \cup FetchInputs \cup ClusterInputs
              \cup SweepInputs \cup ConcurrentInputs \cup FanInInputs

Variants == {"repartition_logic", "adaptive_executor"}

(***************************************************************************)
(* ExecuteDependedTasks: the statements of the function body, in order.    *)
(* An ereport(ERROR) raised by a callee leaves the function at once: no    *)
(* statement catches it.                                                   *)
(***************************************************************************)
\* Mutant: the tasks are executed before the schemas are created.
ExecuteDependedTasksBeforeSchemas(v) ==
    IF v = "repartition_logic"
    THEN <<"EnsureNoModificationsHaveBeenDone", "TaskAndExecutionList", "FillTaskGroups",
           "ExecuteTasksInDependencyOrder", "CreateTemporarySchemas", "RemoveTempJobDirs">>
    ELSE <<"TrackerCleanupJobDirectories", "TaskAndExecutionList", "FillTaskGroups",
           "PutMapOutputFetchQueryStrings", "ExecuteTasksInDependencyOrder",
           "CreateTemporarySchemas">>

\* The statements in another order: the fetch commands are built only after
\* the job schemas were created on the workers.
ExecuteDependedTasksLateSynthesis(v) ==
    IF v = "repartition_logic"
    THEN <<"EnsureNoModificationsHaveBeenDone", "TaskAndExecutionList", "FillTaskGroups",
           "CreateTemporarySchemas", "ExecuteTasksInDependencyOrder", "RemoveTempJobDirs">>
    ELSE <<"TrackerCleanupJobDirectories", "TaskAndExecutionList", "FillTaskGroups",
           "CreateTemporarySchemas", "PutMapOutputFetchQueryStrings",
           "ExecuteTasksInDependencyOrder">>

ExecuteDependedTasks(v) ==
    IF v = "repartition_logic"
    THEN <<"EnsureNoModificationsHaveBeenDone", "TaskAndExecutionList", "FillTaskGroups",
           "CreateTemporarySchemas", "ExecuteTasksInDependencyOrder", "RemoveTempJobDirs">>
    ELSE <<"TrackerCleanupJobDirectories", "TaskAndExecutionList", "FillTaskGroups",
           "PutMapOutputFetchQueryStrings", "CreateTemporarySchemas",
           "ExecuteTasksInDependencyOrder">>

\* A caller that runs the global sweep several times in a row.
CleanUpSchemasCaller == [i \in 1..MaxSweeps |-> "CleanUpSchemas"]

Body == IF entry = "CleanUpSchemas" THEN CleanUpSchemasCaller
        ELSE ExecuteDependedTasks(variant)

At(name) == status = "running" /\ step = "call" /\ stmt <= Len(Body) /\ Body[stmt] = name

\* The statement in progress is finished: go on to the next, or return.
NextStatement ==
    /\ stmt' = stmt + 1
    /\ step' = "call"
    /\ status' = IF stmt = Len(Body) THEN "returned" ELSE "running"
    /\ UNCHANGED errorKind

\* Stay inside the statement in progress, at position s.
Stay(s) ==
    /\ step' = s
    /\ UNCHANGED <<stmt, status, errorKind>>

\* ereport(ERROR, ...) in a callee.
Raise(kind) ==
    /\ status' = "error"
    /\ errorKind' = kind
    /\ UNCHANGED <<stmt, step>>

\* The backend dies (a failed Assert, a segmentation fault).
Crash ==
    /\ status' = "crashed"
    /\ UNCHANGED <<stmt, step, errorKind>>

\* Mutant: the call returns at once and the loop goes on to its next scan.
ExecuteTaskListCalledNoWait == "scan"

\* Where ExecuteDependedTasks is after it has called ExecuteTaskList: inside
\* the call, until the executor returns.
ExecuteTaskListCalled == "executing"

\* One entry of the history of calls to the external collaborators: the
\* function called, its arguments and result, and the statement of
\* ExecuteDependedTasks that made the call.
Call(op, worker, user, cmds, tasks, nodes, ok) ==
    [op |-> op, during |-> Body[stmt], worker |-> worker, user |-> user,
     commandList |-> cmds, tasks |-> tasks, nodes |-> nodes, ok |-> ok]

NoWorker == [workerName |-> "", workerPort |-> 0]

(***************************************************************************)
(* FillTaskGroups                                                          *)
(***************************************************************************)
\* Mutant: each task found is put at the head of its group (lcons).
RECURSIVE SelectTypeLcons(_, _, _)
SelectTypeLcons(heap, list, type) ==
    IF list = NIL THEN NIL
    ELSE IF heap[Head(list)].taskType = type
         THEN SelectTypeLcons(heap, Tail(list), type) \o <<Head(list)>>
         ELSE SelectTypeLcons(heap, Tail(list), type)

RECURSIVE SelectType(_, _, _)
SelectType(heap, list, type) ==
    IF list = NIL THEN NIL
    ELSE IF heap[Head(list)].taskType = type
         THEN <<Head(list)>> \o SelectType(heap, Tail(list), type)
         ELSE SelectType(heap, Tail(list), type)

\* Mutant: every task is taken for a merge task.
FillTaskGroupsEveryTask(v, heap, tasks) ==
    [outputFetchTasks |-> IF v = "adaptive_executor"
                          THEN SelectType(heap, tasks, "MAP_OUTPUT_FETCH_TASK") ELSE NIL,
     mergeTasks |-> tasks]

FillTaskGroups(v, heap, tasks) ==
    [outputFetchTasks |-> IF v = "adaptive_executor"
                          THEN SelectType(heap, tasks, "MAP_OUTPUT_FETCH_TASK") ELSE NIL,
     mergeTasks |-> SelectType(heap, tasks, "MERGE_TASK")]

(***************************************************************************)
(* Fetch-command synthesis                                                 *)
(***************************************************************************)
\* Mutant: the last placement of the map task is taken, not the first.
MapFetchTaskQueryStringLastPlacement(mapFetchTask, mapTask) ==
    LET mapTaskPlacementList == mapTask.taskPlacementList
        mapTaskPlacement == mapTaskPlacementList[Len(mapTaskPlacementList)]
    IN <<<<"MAP_OUTPUT_FETCH_COMMAND", mapTask.jobId, mapTask.taskId,
           mapFetchTask.partitionId, mapFetchTask.upstreamTaskId,
           mapTaskPlacement.nodeName, mapTaskPlacement.nodePort>>>>

MapFetchTaskQueryString(mapFetchTask, mapTask) ==
    LET partitionFileId == mapFetchTask.partitionId
        mergeTaskId == mapFetchTask.upstreamTaskId
        mapTaskPlacementList == mapTask.taskPlacementList
        mapTaskPlacement == linitial(mapTaskPlacementList)
        mapTaskNodeName == mapTaskPlacement.nodeName
        mapTaskNodePort == mapTaskPlacement.nodePort
    IN <<<<"MAP_OUTPUT_FETCH_COMMAND", mapTask.jobId, mapTask.taskId, partitionFileId,
           mergeTaskId, mapTaskNodeName, mapTaskNodePort>>>>

\* Assert(mapFetchTask->taskType == MAP_OUTPUT_FETCH_TASK); Assert(mapTask->taskType == MAP_TASK)
MapFetchAssertsHold(mapFetchTask, mapTask) ==
    /\ mapFetchTask.taskType = "MAP_OUTPUT_FETCH_TASK"
    /\ mapTask.taskType = "MAP_TASK"

\* What a read through a NULL list head may leave in queryString when the
\* process survives it.
GarbageQueryStrings == {<<<<"garbage">>>>}

(***************************************************************************)
(* Namespace provisioning and reclamation                                  *)
(***************************************************************************)
RECURSIVE DoesJobIDExist(_, _)
DoesJobIDExist(ids, jobId) ==
    IF ids = NIL THEN FALSE
    ELSE IF Head(ids) = jobId THEN TRUE
    ELSE DoesJobIDExist(Tail(ids), jobId)

RECURSIVE CreateJobIdsFrom(_, _, _)
CreateJobIdsFrom(heap, tasks, ids) ==
    IF tasks = NIL THEN ids
    ELSE CreateJobIdsFrom(heap, Tail(tasks),
                          IF ~DoesJobIDExist(ids, heap[Head(tasks)].jobId)
                          THEN lappend(ids, heap[Head(tasks)].jobId)
                          ELSE ids)

\* Mutant: every merge task's jobId is appended, seen before or not.
CreateJobIdsNoMembershipTest(heap, tasks) == [i \in DOMAIN tasks |-> heap[tasks[i]].jobId]

CreateJobIds(heap, tasks) == CreateJobIdsFrom(heap, tasks, NIL)

\* Mutant: the command has the statement of the first job id only.
GenerateCommandFirstOnly(ids, templateCommand) ==
    IF ids = NIL THEN <<>> ELSE <<<<templateCommand, Head(ids)>>>>

RECURSIVE GenerateCommand(_, _)
GenerateCommand(ids, templateCommand) ==
    IF ids = NIL THEN <<>>
    ELSE <<<<templateCommand, Head(ids)>>>> \o GenerateCommand(Tail(ids), templateCommand)

GenerateCreateSchemasCommand(ids) == GenerateCommand(ids, "WORKER_CREATE_SCHEMA_QUERY")

\* Mutant: the delete command is built from the first job id only.
GenerateDeleteJobsCommandFirstOnly(ids) ==
    GenerateCommand(SubSeq(ids, 1, 1), "WORKER_DELETE_JOBDIR_QUERY")

GenerateDeleteJobsCommand(ids) == GenerateCommand(ids, "WORKER_DELETE_JOBDIR_QUERY")

\* The command of the global sweep: one statement without arguments.
JOB_SCHEMA_CLEANUP == <<<<"JOB_SCHEMA_CLEANUP">>>>

(***************************************************************************)
(* Worker side: what the statements do to the job schemas of a worker.     *)
(***************************************************************************)
WorkerRunsStatement(jobSchemas, statement) ==
    IF statement[1] = "WORKER_CREATE_SCHEMA_QUERY" THEN jobSchemas \cup {statement[2]}
    ELSE IF statement[1] = "JOB_SCHEMA_CLEANUP" THEN {}
    ELSE jobSchemas

RECURSIVE WorkerRunsStatements(_, _)
WorkerRunsStatements(jobSchemas, statements) ==
    IF statements = <<>> THEN jobSchemas
    ELSE WorkerRunsStatements(WorkerRunsStatement(jobSchemas, Head(statements)),
                              Tail(statements))

\* How a worker can answer a command list: it runs it ("none"), it cannot be
\* reached or the transaction is lost ("broadcast"), or one of its statements
\* fails on the worker ("statement").  Which statements a worker accepts is
\* decided on the worker: any statement may fail, whatever the job schemas.
WorkerAnswers(jobSchemas, cmds) ==
    {"none", "broadcast"} \cup (IF Flatten(cmds) # <<>> THEN {"statement"} ELSE {})

\* The worker runs every command of the list, in order, in one transaction.
WorkerRuns(all, workerName, cmds) ==
    [all EXCEPT ![workerName] = WorkerRunsStatements(@, Flatten(cmds))]

(***************************************************************************)
(* The completed set and the readiness scan                                *)
(***************************************************************************)
FillTaskKey(t) == <<t.jobId, t.taskId>>

\* Mutant: nothing is entered into the hash table.
AddCompletedTasksNothing(heap, curCompletedTasks, completed) == completed

RECURSIVE AddCompletedTasks(_, _, _)
AddCompletedTasks(heap, curCompletedTasks, completed) ==
    IF curCompletedTasks = NIL THEN completed
    ELSE AddCompletedTasks(heap, Tail(curCompletedTasks),
                           completed \cup {FillTaskKey(heap[Head(curCompletedTasks)])})

\* hash_search(completedTasks, &taskKey, HASH_ENTER, &found): the key is
\* entered when it is absent.
\* Mutant: the key is never found, and not entered.
IsTaskAlreadyCompletedNever(t, completed) ==
    [found |-> FALSE, completedTasks |-> completed]

IsTaskAlreadyCompleted(t, completed) ==
    [found |-> FillTaskKey(t) \in completed,
     completedTasks |-> completed \cup {FillTaskKey(t)}]

RECURSIVE AllFound(_, _, _)
AllFound(heap, deps, completed) ==
    IF deps = NIL THEN TRUE
    ELSE IF FillTaskKey(heap[Head(deps)]) \notin completed THEN FALSE
    ELSE AllFound(heap, Tail(deps), completed)

\* Mutant: only the first dependency is looked up.
IsAllDependencyCompletedFirstOnly(heap, targetTask, completed) ==
    \/ targetTask.dependedTaskList = NIL
    \/ FillTaskKey(heap[linitial(targetTask.dependedTaskList)]) \in completed

\* Mutant: the test of `found` is inverted.
IsAllDependencyCompletedInverted(heap, targetTask, completed) ==
    \A i \in DOMAIN targetTask.dependedTaskList :
        FillTaskKey(heap[targetTask.dependedTaskList[i]]) \notin completed

IsAllDependencyCompleted(heap, targetTask, completed) ==
    AllFound(heap, targetTask.dependedTaskList, completed)

\* The foreach over allTasks of ExecuteTasksInDependencyOrder: the second
\* operand of && is evaluated only when the first holds.
RECURSIVE ScanTasks(_, _, _, _)
ScanTasks(heap, tasks, cur, completed) ==
    IF tasks = NIL THEN [curTasks |-> cur, completedTasks |-> completed]
    ELSE LET t == heap[Head(tasks)]
         IN IF IsAllDependencyCompleted(heap, t, completed)
            THEN LET r == IsTaskAlreadyCompleted(t, completed)
                 IN ScanTasks(heap, Tail(tasks),
                              IF ~r.found THEN lappend(cur, Head(tasks)) ELSE cur,
                              r.completedTasks)
            ELSE ScanTasks(heap, Tail(tasks), cur, completed)

(***************************************************************************)
(* State machine                                                           *)
(***************************************************************************)
env == <<variant, assertChecking, modificationsDone, nodeLists, taskAndExecutionList,
         topLevelTasks, entry, activeNodes, self, other>>

\* The variables of one backend at the start of its entry point.
InitialBackend(inp, v, id) ==
    [variant |-> v, assertChecking |-> inp.assertChecking,
     modificationsDone |-> inp.modificationsDone,
     taskAndExecutionList |-> inp.taskAndExecutionList, task |-> inp.task,
     topLevelTasks |-> inp.topLevelTasks, allTasks |-> NIL, mapOutputFetchTasks |-> NIL,
     mergeTasks |-> NIL, jobIds |-> NIL, stmt |-> 1, step |-> "call",
     status |-> "running", errorKind |-> "none", fetchIdx |-> 1, commandList |-> NIL,
     workerNodeList |-> NIL, toSend |-> NIL, completedTasks |-> {}, curTasks |-> NIL,
     calls |-> <<>>, entry |-> inp.entry, scanLog |-> <<>>, outstanding |-> <<>>,
     writes |-> <<>>, self |-> id]

\* The variables of the backend that is running now.
Backend ==
    [variant |-> variant, assertChecking |-> assertChecking,
     modificationsDone |-> modificationsDone,
     taskAndExecutionList |-> taskAndExecutionList, task |-> task,
     topLevelTasks |-> topLevelTasks, allTasks |-> allTasks,
     mapOutputFetchTasks |-> mapOutputFetchTasks, mergeTasks |-> mergeTasks,
     jobIds |-> jobIds, stmt |-> stmt, step |-> step, status |-> status,
     errorKind |-> errorKind, fetchIdx |-> fetchIdx, commandList |-> commandList,
     workerNodeList |-> workerNodeList, toSend |-> toSend,
     completedTasks |-> completedTasks, curTasks |-> curTasks, calls |-> calls,
     entry |-> entry, scanLog |-> scanLog, outstanding |-> outstanding,
     writes |-> writes, self |-> self]

\* The backend b gets the processor.
Resume(b) ==
    /\ variant' = b.variant
    /\ assertChecking' = b.assertChecking
    /\ modificationsDone' = b.modificationsDone
    /\ taskAndExecutionList' = b.taskAndExecutionList
    /\ task' = b.task
    /\ topLevelTasks' = b.topLevelTasks
    /\ allTasks' = b.allTasks
    /\ mapOutputFetchTasks' = b.mapOutputFetchTasks
    /\ mergeTasks' = b.mergeTasks
    /\ jobIds' = b.jobIds
    /\ stmt' = b.stmt
    /\ step' = b.step
    /\ status' = b.status
    /\ errorKind' = b.errorKind
    /\ fetchIdx' = b.fetchIdx
    /\ commandList' = b.commandList
    /\ workerNodeList' = b.workerNodeList
    /\ toSend' = b.toSend
    /\ completedTasks' = b.completedTasks
    /\ curTasks' = b.curTasks
    /\ calls' = b.calls
    /\ entry' = b.entry
    /\ scanLog' = b.scanLog
    /\ outstanding' = b.outstanding
    /\ writes' = b.writes
    /\ self' = b.self

Init ==
    \E inp \in Inputs, v \in Variants :
        LET b == InitialBackend(inp, v, 1)
        IN /\ variant = b.variant
           /\ assertChecking = b.assertChecking
           /\ modificationsDone = b.modificationsDone
           /\ nodeLists = inp.nodeLists
           /\ taskAndExecutionList = b.taskAndExecutionList
           /\ task = b.task
           /\ topLevelTasks = b.topLevelTasks
           /\ allTasks = b.allTasks
           /\ mapOutputFetchTasks = b.mapOutputFetchTasks
           /\ mergeTasks = b.mergeTasks
           /\ jobIds = b.jobIds
           /\ stmt = b.stmt
           /\ step = b.step
           /\ status = b.status
           /\ errorKind = b.errorKind
           /\ fetchIdx = b.fetchIdx
           /\ commandList = b.commandList
           /\ workerNodeList = b.workerNodeList
           /\ toSend = b.toSend
           /\ completedTasks = b.completedTasks
           /\ curTasks = b.curTasks
           /\ calls = b.calls
           /\ entry = b.entry
           /\ activeNodes \in inp.nodeLists
           /\ schemas = inp.schemas
           /\ scanLog = b.scanLog
           /\ outstanding = b.outstanding
           /\ writes = b.writes
           /\ self = b.self
           /\ other = [i \in DOMAIN inp.concurrent |->
                          InitialBackend(inp.concurrent[i], v, i + 1)]

\* The operating system suspends the running backend and resumes another.
Switch ==
    /\ other # <<>>
    /\ Resume(Head(other))
    /\ other' = Append(Tail(other), Backend)
    /\ UNCHANGED <<nodeLists, activeNodes, schemas>>

\* A worker node is added, removed or disabled while a backend runs.
MembershipChange ==
    /\ status = "running"
    /\ \E list \in nodeLists \ {activeNodes} : activeNodes' = list
    /\ UNCHANGED <<variant, assertChecking, modificationsDone, nodeLists,
                   taskAndExecutionList, task, topLevelTasks, allTasks, mapOutputFetchTasks,
                   mergeTasks, jobIds, stmt, step, status, errorKind, fetchIdx, commandList,
                   workerNodeList, toSend, completedTasks, curTasks, calls, entry, schemas,
                   scanLog, outstanding, writes, self, other>>

\* repartition_logic: the pre-flight guard.
EnsureNoModificationsHaveBeenDone ==
    /\ At("EnsureNoModificationsHaveBeenDone")
    /\ IF modificationsDone THEN Raise("modification") ELSE NextStatement
    /\ UNCHANGED <<env, writes, schemas, scanLog, outstanding, task, allTasks, mapOutputFetchTasks, mergeTasks, jobIds, fetchIdx,
                   commandList, workerNodeList, toSend, completedTasks, curTasks, calls>>

\* adaptive_executor: the first statement, a call of an external function.
TrackerCleanupJobDirectories ==
    /\ At("TrackerCleanupJobDirectories")
    /\ calls' = Append(calls, Call("TrackerCleanupJobDirectories", NoWorker, "", NIL,
                                   NIL, NIL, TRUE))
    /\ NextStatement
    /\ UNCHANGED <<env, writes, schemas, scanLog, outstanding, task, allTasks, mapOutputFetchTasks, mergeTasks, jobIds, fetchIdx,
                   commandList, workerNodeList, toSend, completedTasks, curTasks>>

TaskAndExecutionList ==
    /\ At("TaskAndExecutionList")
    /\ allTasks' = taskAndExecutionList
    /\ NextStatement
    /\ UNCHANGED <<env, writes, schemas, scanLog, outstanding, task, mapOutputFetchTasks, mergeTasks, jobIds, fetchIdx,
                   commandList, workerNodeList, toSend, completedTasks, curTasks, calls>>

FillTaskGroupsStmt ==
    /\ At("FillTaskGroups")
    /\ LET groups == FillTaskGroups(variant, task, allTasks)
       IN /\ mapOutputFetchTasks' = groups.outputFetchTasks
          /\ mergeTasks' = groups.mergeTasks
    /\ NextStatement
    /\ UNCHANGED <<env, writes, schemas, scanLog, outstanding, task, allTasks, jobIds, fetchIdx, commandList, workerNodeList,
                   toSend, completedTasks, curTasks, calls>>

\* One iteration of the foreach of PutMapOutputFetchQueryStrings, or its end.
\* linitial() of an empty list reads through a NULL pointer: the backend
\* crashes, or goes on with whatever it read.
PutMapOutputFetchQueryStrings ==
    /\ At("PutMapOutputFetchQueryStrings")
    /\ \/ /\ fetchIdx > Len(mapOutputFetchTasks)
          /\ NextStatement
          /\ UNCHANGED <<task, fetchIdx, writes>>
       \/ /\ fetchIdx <= Len(mapOutputFetchTasks)
          /\ LET f == mapOutputFetchTasks[fetchIdx]
                 deps == task[f].dependedTaskList
                 undefined == IF deps = NIL THEN TRUE
                              ELSE task[linitial(deps)].taskPlacementList = NIL
             IN \/ /\ undefined
                   /\ Crash
                   /\ UNCHANGED <<task, fetchIdx, writes>>
                \/ /\ undefined
                   /\ \E g \in GarbageQueryStrings :
                          task' = [task EXCEPT ![f].queryString = g]
                   /\ fetchIdx' = fetchIdx + 1
                   /\ writes' = Append(writes, f)
                   /\ Stay("call")
                \/ /\ ~undefined
                   /\ assertChecking
                   /\ ~MapFetchAssertsHold(task[f], task[linitial(deps)])
                   /\ Crash
                   /\ UNCHANGED <<task, fetchIdx, writes>>
                \/ /\ ~undefined
                   /\ assertChecking => MapFetchAssertsHold(task[f], task[linitial(deps)])
                   /\ task' = [task EXCEPT ![f].queryString =
                                   MapFetchTaskQueryString(task[f], task[linitial(deps)])]
                   /\ fetchIdx' = fetchIdx + 1
                   /\ writes' = Append(writes, f)
                   /\ Stay("call")
    /\ UNCHANGED <<env, schemas, scanLog, outstanding, allTasks, mapOutputFetchTasks, mergeTasks, jobIds, commandList,
                   workerNodeList, toSend, completedTasks, curTasks, calls>>

\* Mutant: the node list of the backend's previous broadcast is used again.
SendCommandToAllWorkersSameList(cmds) ==
    /\ commandList' = cmds
    /\ workerNodeList' = IF workerNodeList = NIL THEN activeNodes ELSE workerNodeList
    /\ toSend' = workerNodeList'
    /\ calls' = Append(calls, Call("ActiveReadableNodeList", NoWorker, "", cmds,
                                   NIL, activeNodes, TRUE))
    /\ Stay("send")

\* The head of SendCommandToAllWorkers: the membership query (recorded with
\* the command list that is about to be sent).
SendCommandToAllWorkers(cmds) ==
    /\ commandList' = cmds
    /\ workerNodeList' = activeNodes
    /\ toSend' = activeNodes
    /\ calls' = Append(calls, Call("ActiveReadableNodeList", NoWorker, "", cmds,
                                   NIL, activeNodes, TRUE))
    /\ Stay("send")

CreateTemporarySchemas ==
    /\ At("CreateTemporarySchemas")
    /\ jobIds' = CreateJobIds(task, mergeTasks)
    /\ SendCommandToAllWorkers(<<GenerateCreateSchemasCommand(jobIds')>>)
    /\ UNCHANGED <<env, writes, schemas, scanLog, outstanding, task, allTasks, mapOutputFetchTasks, mergeTasks, fetchIdx,
                   completedTasks, curTasks>>

\* The global sweep: one fixed command, no job id.
CleanUpSchemas ==
    /\ At("CleanUpSchemas")
    /\ SendCommandToAllWorkers(list_make1(JOB_SCHEMA_CLEANUP))
    /\ UNCHANGED <<env, writes, schemas, scanLog, outstanding, task, allTasks, mapOutputFetchTasks,
                   mergeTasks, jobIds, fetchIdx, completedTasks, curTasks>>

RemoveTempJobDirs ==
    /\ At("RemoveTempJobDirs")
    /\ SendCommandToAllWorkers(<<GenerateDeleteJobsCommand(jobIds)>>)
    /\ UNCHANGED <<env, writes, schemas, scanLog, outstanding, task, allTasks, mapOutputFetchTasks, mergeTasks, jobIds, fetchIdx,
                   completedTasks, curTasks>>

\* One iteration of the foreach of SendCommandToAllWorkers: the worker takes
\* the command list in one transaction, or rejects it (ereport(ERROR)).
SendCommandListToWorkerInSingleTransaction ==
    /\ status = "running"
    /\ step = "send"
    /\ toSend # NIL
    /\ \E answer \in WorkerAnswers(schemas[Head(toSend).workerName], commandList) :
        /\ calls' = Append(calls, Call("SendCommandListToWorkerInSingleTransaction",
                                       Head(toSend), "CitusExtensionOwnerName",
                                       commandList, NIL, NIL, answer = "none"))
        /\ IF answer = "none"
           THEN /\ toSend' = Tail(toSend)
                /\ schemas' = WorkerRuns(schemas, Head(toSend).workerName, commandList)
                /\ Stay("send")
           ELSE /\ Raise(answer)
                /\ UNCHANGED <<toSend, schemas>>
    /\ UNCHANGED <<env, writes, scanLog, outstanding, task, allTasks, mapOutputFetchTasks, mergeTasks, jobIds, fetchIdx,
                   commandList, workerNodeList, completedTasks, curTasks>>

\* The foreach of SendCommandToAllWorkers is over.
SendCommandToAllWorkersReturn ==
    /\ status = "running"
    /\ step = "send"
    /\ toSend = NIL
    /\ NextStatement
    /\ UNCHANGED <<env, writes, schemas, scanLog, outstanding, task, allTasks, mapOutputFetchTasks, mergeTasks, jobIds, fetchIdx,
                   commandList, workerNodeList, toSend, completedTasks, curTasks, calls>>

\* ExecuteTasksInDependencyOrder up to the while loop: the hash table is
\* created and the top level tasks are entered.
ExecuteTasksInDependencyOrder ==
    /\ At("ExecuteTasksInDependencyOrder")
    /\ completedTasks' = AddCompletedTasks(task, topLevelTasks, {})
    /\ curTasks' = NIL
    /\ Stay("scan")
    /\ UNCHANGED <<env, writes, schemas, scanLog, outstanding, task, allTasks, mapOutputFetchTasks, mergeTasks, jobIds, fetchIdx,
                   commandList, workerNodeList, toSend, calls>>

\* One pass of the foreach over allTasks, and the test that ends the loop.
ScanAllTasks ==
    /\ status = "running"
    /\ step = "scan"
    /\ LET r == ScanTasks(task, allTasks, curTasks, completedTasks)
       IN /\ curTasks' = r.curTasks
          /\ completedTasks' = r.completedTasks
          /\ scanLog' = Append(scanLog, [before |-> completedTasks, found |-> r.curTasks])
          /\ IF list_length(r.curTasks) = 0 THEN NextStatement ELSE Stay("dispatch")
    /\ UNCHANGED <<env, writes, schemas, outstanding, task, allTasks, mapOutputFetchTasks, mergeTasks, jobIds, fetchIdx,
                   commandList, workerNodeList, toSend, calls>>

\* ExecuteTaskList(ROW_MODIFY_NONE, curTasks, MaxAdaptiveExecutorPoolSize) is
\* called: the batch is with the executor.
ExecuteTaskList ==
    /\ status = "running"
    /\ step = "dispatch"
    /\ outstanding' = Append(outstanding, curTasks)
    /\ Stay(ExecuteTaskListCalled)
    /\ UNCHANGED <<env, writes, schemas, scanLog, task, allTasks, mapOutputFetchTasks, mergeTasks,
                   jobIds, fetchIdx, commandList, workerNodeList, toSend, completedTasks,
                   curTasks, calls>>

\* ExecuteTaskList returns, or a task has failed (ereport(ERROR)); after
\* the return AddCompletedTasks(curTasks) and curTasks = NIL.
ExecuteTaskListReturn ==
    /\ status = "running"
    /\ step = "executing"
    /\ \E ok \in BOOLEAN :
        /\ calls' = Append(calls, Call("ExecuteTaskList", NoWorker, "", NIL,
                                       Head(outstanding), NIL, ok))
        /\ outstanding' = Tail(outstanding)
        /\ IF ok
           THEN /\ completedTasks' = AddCompletedTasks(task, curTasks, completedTasks)
                /\ curTasks' = NIL
                /\ Stay("scan")
           ELSE /\ Raise("execution")
                /\ UNCHANGED <<completedTasks, curTasks>>
    /\ UNCHANGED <<env, writes, schemas, scanLog, task, allTasks, mapOutputFetchTasks, mergeTasks,
                   jobIds, fetchIdx, commandList, workerNodeList, toSend>>

Next ==
    \/ EnsureNoModificationsHaveBeenDone
    \/ TrackerCleanupJobDirectories
    \/ TaskAndExecutionList
    \/ FillTaskGroupsStmt
    \/ PutMapOutputFetchQueryStrings
    \/ CreateTemporarySchemas
    \/ SendCommandListToWorkerInSingleTransaction
    \/ SendCommandToAllWorkersReturn
    \/ ExecuteTasksInDependencyOrder
    \/ ScanAllTasks
    \/ ExecuteTaskList
    \/ ExecuteTaskListReturn
    \/ RemoveTempJobDirs
    \/ CleanUpSchemas
    \/ MembershipChange
    \/ Switch

Spec == Init /\ [][Next]_vars

(***************************************************************************)
(* Vocabulary of the properties                                            *)
(***************************************************************************)
\* The batches handed to the multi-task executor so far, in order.
Batches ==
    LET executed == SelectSeq(calls, LAMBDA c : c.op = "ExecuteTaskList")
    IN [i \in DOMAIN executed |-> executed[i].tasks]

Occurrences(list, x) == Cardinality({i \in DOMAIN list : list[i] = x})

DependenciesOf(t) == Range(task[t].dependedTaskList)

RECURSIVE DependsOnWithin(_, _)
DependsOnWithin(S, k) ==
    IF k = 0 THEN S ELSE DependsOnWithin(S \cup UNION {DependenciesOf(x) : x \in S}, k - 1)

\* Everything t depends on, directly or not.
TransitiveDependencies(t) == DependsOnWithin(DependenciesOf(t), MaxTasks)

Acyclic == \A t \in TaskIds : t \notin TransitiveDependencies(t)

Collection == Range(taskAndExecutionList)

TopLevel == Range(topLevelTasks)

\* A valid DAG whose dependencies are all members of the collection.
ValidDag == Acyclic /\ \A t \in Collection : DependenciesOf(t) \subseteq Collection

StatementReturned(name) == \E i \in DOMAIN Body : Body[i] = name /\ stmt > i

InScheduler == /\ stmt <= Len(Body)
               /\ Body[stmt] = "ExecuteTasksInDependencyOrder"
               /\ step \in {"scan", "dispatch", "executing"}

IsSend(c) == c.op = "SendCommandListToWorkerInSingleTransaction"

StatementsOf(template, ids) == [i \in DOMAIN ids |-> <<template, ids[i]>>]

(***************************************************************************)
(* C1  Every dispatched task of an acyclic collection is dispatched in a   *)
(* batch strictly later than every batch holding one of its dependencies   *)
(* (T1, T2, then T3 depending on both: {T1,T2} then {T3}).                 *)
(* The code does not do this: IsTaskAlreadyCompleted enters the key of a   *)
(* ready task during the scan, so a dependent task later in the same scan  *)
(* finds it completed and joins the same batch.                            *)
(***************************************************************************)
C1_DependenciesInEarlierBatch ==
    Acyclic =>
        \A i \in DOMAIN Batches : \A t \in Range(Batches[i]) : \A d \in DependenciesOf(t) :
            \A j \in DOMAIN Batches : d \in Range(Batches[j]) => j < i

(***************************************************************************)
(* C2  For a valid DAG with all dependencies in the collection, once       *)
(* ExecuteTasksInDependencyOrder has returned every task that is not a top *)
(* level task has been in exactly one dispatched batch, exactly once.      *)
(***************************************************************************)
C2_EveryTaskDispatchedOnce ==
    (StatementReturned("ExecuteTasksInDependencyOrder") /\ ValidDag) =>
        \A t \in Collection \ TopLevel : Occurrences(Flatten(Batches), t) = 1

C2_Witness ==
    /\ ValidDag
    /\ StatementReturned("ExecuteTasksInDependencyOrder")
    /\ Len(Batches) >= 2
    /\ \E t \in Collection \ TopLevel :
           /\ Cardinality(DependenciesOf(t) \ TopLevel) >= 2
           /\ Occurrences(Flatten(Batches), t) = 1

(***************************************************************************)
(* C3  No top level task is ever in a batch given to the executor: their   *)
(* keys are in the completed set before the first scan, and a task whose   *)
(* dependencies are all top level tasks is ready in the first scan.        *)
(***************************************************************************)
C3_TopLevelNeverDispatched ==
    LET batches == Batches
    IN /\ \A i \in DOMAIN batches : Range(batches[i]) \cap TopLevel = {}
       /\ InScheduler =>
              \A t \in TopLevel : <<task[t].jobId, task[t].taskId>> \in completedTasks
       /\ Len(batches) >= 1 =>
              \A t \in Collection \ TopLevel :
                  DependenciesOf(t) \subseteq TopLevel => t \in Range(batches[1])

C3_Witness ==
    /\ Len(Batches) >= 1
    /\ \E t \in Range(Batches[1]) : DependenciesOf(t) # {} /\ DependenciesOf(t) \subseteq TopLevel
    /\ \E t \in TopLevel : DependenciesOf(t) \cap Range(Batches[1]) # {}

(***************************************************************************)
(* C4  When the executor reports a failure for a dispatched batch the run  *)
(* ends in failure: nothing is dispatched after it, the tasks of the       *)
(* failed batch are not in the completed set, and the temp-directory       *)
(* removal broadcast is not made.                                          *)
(* The code enters the keys of the batch during the scan, before the       *)
(* dispatch (see C1), so they are in the set when the batch fails.         *)
(***************************************************************************)
C4_FailedBatchEndsRun ==
    \A i \in DOMAIN calls :
        (calls[i].op = "ExecuteTaskList" /\ ~calls[i].ok) =>
            /\ status = "error"
            /\ i = Len(calls)
            /\ \A t \in Range(calls[i].tasks) :
                   <<task[t].jobId, task[t].taskId>> \notin completedTasks
            /\ \A j \in DOMAIN calls : calls[j].during # "RemoveTempJobDirs"

(***************************************************************************)
(* C5  When a data-modifying statement has run earlier in the transaction  *)
(* ExecuteDependedTasks fails at once: no broadcast is sent to any worker  *)
(* and no batch is dispatched.                                             *)
(* ExecuteDependedTasks of adaptive_executor_repartioning.c has no such    *)
(* guard and runs as usual.                                                *)
(***************************************************************************)
C5_NoWorkAfterModification ==
    modificationsDone =>
        /\ status \in {"running", "error"}
        /\ stmt = 1
        /\ \A i \in DOMAIN calls :
               calls[i].op \notin {"ActiveReadableNodeList", "ExecuteTaskList",
                                   "SendCommandListToWorkerInSingleTransaction"}

(***************************************************************************)
(* C6  The job id list of CreateJobIds holds each jobId of the merge tasks *)
(* exactly once and no other, in order of first occurrence; the create     *)
(* command has one create statement per entry, in that order.              *)
(***************************************************************************)
MergeJobIds == [i \in DOMAIN mergeTasks |-> task[mergeTasks[i]].jobId]

FirstIndex(list, x) == CHOOSE i \in DOMAIN list : list[i] = x /\ \A j \in 1..(i - 1) : list[j] # x

Provisioning == \E i \in DOMAIN calls : calls[i].during = "CreateTemporarySchemas"

C6_DistinctJobIdsInFirstSeenOrder ==
    Provisioning =>
        LET merge == MergeJobIds
            create == <<StatementsOf("WORKER_CREATE_SCHEMA_QUERY", jobIds)>>
        IN /\ Range(jobIds) = Range(merge)
           /\ \A i, j \in DOMAIN jobIds : i # j => jobIds[i] # jobIds[j]
           /\ \A i, j \in DOMAIN jobIds :
                  i < j => FirstIndex(merge, jobIds[i]) < FirstIndex(merge, jobIds[j])
           /\ \A i \in DOMAIN calls :
                  calls[i].during = "CreateTemporarySchemas" /\ calls[i].op # "ExecuteTaskList"
                      => calls[i].commandList = create

C6_Witness ==
    /\ MergeJobIds = <<5, 5, 7>>
    /\ jobIds = <<5, 7>>
    /\ \E i \in DOMAIN calls :
           /\ IsSend(calls[i])
           /\ calls[i].commandList = << << <<"WORKER_CREATE_SCHEMA_QUERY", 5>>,
                                           <<"WORKER_CREATE_SCHEMA_QUERY", 7>> >> >>

(***************************************************************************)
(* C7  Before the first batch is dispatched the create batch has been sent *)
(* successfully to every worker of the node list the provisioning          *)
(* broadcast read.                                                         *)
(***************************************************************************)
C7_ProvisionedBeforeDispatch ==
    \A k \in DOMAIN calls :
        calls[k].op = "ExecuteTaskList" =>
            \E a \in 1..(k - 1) :
                /\ calls[a].op = "ActiveReadableNodeList"
                /\ calls[a].during = "CreateTemporarySchemas"
                /\ \A w \in Range(calls[a].nodes) :
                       \E n \in (a + 1)..(k - 1) :
                           /\ IsSend(calls[n])
                           /\ calls[n].worker = w
                           /\ calls[n].ok
                           /\ calls[n].commandList =
                                  <<StatementsOf("WORKER_CREATE_SCHEMA_QUERY", jobIds)>>

C7_Witness ==
    \E k \in DOMAIN calls :
        /\ calls[k].op = "ExecuteTaskList"
        /\ \E a \in 1..(k - 1) :
               /\ calls[a].op = "ActiveReadableNodeList"
               /\ Len(calls[a].nodes) >= 2
        /\ jobIds # NIL

(***************************************************************************)
(* C8  When a worker rejects the create batch the run aborts: no batch is  *)
(* dispatched, no later worker is contacted, and no removal broadcast is   *)
(* sent.                                                                   *)
(***************************************************************************)
C8_RejectedCreateAbortsRun ==
    \A i \in DOMAIN calls :
        (IsSend(calls[i]) /\ calls[i].during = "CreateTemporarySchemas" /\ ~calls[i].ok) =>
            /\ status = "error"
            /\ i = Len(calls)
            /\ \A j \in DOMAIN calls :
                   /\ calls[j].op # "ExecuteTaskList"
                   /\ calls[j].during # "RemoveTempJobDirs"

C8_Witness ==
    \E i \in DOMAIN calls :
        /\ IsSend(calls[i]) /\ calls[i].during = "CreateTemporarySchemas" /\ ~calls[i].ok
        /\ toSend # NIL /\ Tail(toSend) # NIL
        /\ \E t \in Collection \ TopLevel : DependenciesOf(t) = {}

(***************************************************************************)
(* C9  The temp-directory removal broadcast is made only after the         *)
(* scheduler is done without error, and its command has one delete         *)
(* statement per job id of the list the namespaces were created from, in   *)
(* the same order.                                                         *)
(***************************************************************************)
Ready(t) ==
    /\ \A d \in DependenciesOf(t) : <<task[d].jobId, task[d].taskId>> \in completedTasks
    /\ <<task[t].jobId, task[t].taskId>> \notin completedTasks

CreatedJobIds ==
    LET a == CHOOSE i \in DOMAIN calls : calls[i].during = "CreateTemporarySchemas"
        created == calls[a].commandList[1]
    IN [i \in DOMAIN created |-> created[i][2]]

C9_RemovalAfterSchedulerWithSameJobIds ==
    \A i \in DOMAIN calls :
        calls[i].during = "RemoveTempJobDirs" =>
            /\ \A j \in DOMAIN calls : calls[j].op = "ExecuteTaskList" => j < i /\ calls[j].ok
            /\ \A t \in Range(allTasks) : ~Ready(t)
            /\ curTasks = NIL
            /\ Provisioning
            /\ calls[i].commandList =
                   <<StatementsOf("WORKER_DELETE_JOBDIR_QUERY", CreatedJobIds)>>

C9_Witness ==
    \E i \in DOMAIN calls :
        /\ calls[i].during = "RemoveTempJobDirs"
        /\ IsSend(calls[i])
        /\ Len(calls[i].commandList[1]) >= 2
        /\ Len(Batches) >= 2

(***************************************************************************)
(* C10 The queryString given to a fetch task F whose first dependency is P *)
(* is the fetch template filled with P's jobId, P's taskId, F's            *)
(* partitionId, F's upstreamTaskId and the node name and port of P's first *)
(* placement, in this order.                                               *)
(***************************************************************************)
\* The fetch tasks PutMapOutputFetchQueryStrings has assigned a queryString to.
Synthesized == {mapOutputFetchTasks[i] : i \in 1..(fetchIdx - 1)}

C10_FetchQueryStringFromFirstPlacement ==
    \A f \in Synthesized :
        LET deps == task[f].dependedTaskList
        IN (deps # NIL /\ task[deps[1]].taskPlacementList # NIL) =>
               LET P == task[deps[1]]
                   p1 == P.taskPlacementList[1]
               IN task[f].queryString =
                      << <<"MAP_OUTPUT_FETCH_COMMAND", P.jobId, P.taskId,
                           task[f].partitionId, task[f].upstreamTaskId,
                           p1.nodeName, p1.nodePort>> >>

C10_Witness ==
    \E f \in Synthesized :
        LET deps == task[f].dependedTaskList
        IN /\ deps # NIL
           /\ Len(task[deps[1]].taskPlacementList) >= 2
           /\ task[deps[1]].taskType = "MAP_TASK"
           /\ task[f].partitionId = 1
           /\ task[f].queryString[1][1] = "MAP_OUTPUT_FETCH_COMMAND"
           /\ status = "returned"

FetchTasksOfCollection ==
    {t \in Collection : task[t].taskType = "MAP_OUTPUT_FETCH_TASK"}

\* A fetch task of the collection whose only dependency is not a member.
AbsentDependencyFetchTask(t) ==
    /\ t \in FetchTasksOfCollection
    /\ Len(task[t].dependedTaskList) = 1
    /\ linitial(task[t].dependedTaskList) \notin Collection

(***************************************************************************)
(* C11  When the only dependedTaskList entry of a fetch task is a task     *)
(* that is not a member of the task collection, the run ends with a fatal  *)
(* error and no batch is dispatched.                                       *)
(* The code has no such check: the fetch task is never ready, the scan     *)
(* that finds no ready task ends the loop, and ExecuteDependedTasks        *)
(* returns as after a full success.                                        *)
(***************************************************************************)
C11_AbsentDependencyIsFatal ==
    (\E t \in TaskIds : AbsentDependencyFetchTask(t)) =>
        /\ status # "returned"
        /\ ~StatementReturned("ExecuteTasksInDependencyOrder")
        /\ Batches = <<>>

\* Every backend: the running one and the suspended ones.
Backends == <<Backend>> \o other

\* The job ids of the merge tasks of backend b's collection.
MergeJobIdsOf(b) ==
    {b.task[t].jobId :
        t \in {x \in Range(b.taskAndExecutionList) : b.task[x].taskType = "MERGE_TASK"}}

\* The job ids named by the create-schema and delete-job-directory
\* statements that backend b has sent to a worker.
JobIdsNamedBy(b) ==
    {s[2] : s \in {x \in UNION {Range(Flatten(b.calls[i].commandList)) :
                                    i \in {j \in DOMAIN b.calls : IsSend(b.calls[j])}} :
                       x[1] \in {"WORKER_CREATE_SCHEMA_QUERY",
                                 "WORKER_DELETE_JOBDIR_QUERY"}}}

DisjointJobs ==
    \A i, j \in DOMAIN Backends :
        i # j => MergeJobIdsOf(Backends[i]) \cap MergeJobIdsOf(Backends[j]) = {}

(***************************************************************************)
(* C12  Backends that run at the same time on jobs with disjoint merge     *)
(* job ids, on the same workers: under every interleaving each create      *)
(* schema and delete job directory statement a backend sends names a job   *)
(* id of a merge task of that backend, hence none of another backend; the  *)
(* job schemas on a worker are those the backends' own statements name.    *)
(***************************************************************************)
C12_StatementsNameOwnJobIds ==
    LET all == Backends
        own == [i \in DOMAIN all |-> MergeJobIdsOf(all[i])]
        named == [i \in DOMAIN all |-> JobIdsNamedBy(all[i])]
    IN (\A i, j \in DOMAIN all : i # j => own[i] \cap own[j] = {}) =>
           /\ \A i \in DOMAIN all :
                  /\ named[i] \subseteq own[i]
                  /\ \A j \in DOMAIN all \ {i} : named[i] \cap own[j] = {}
           /\ entry = "ExecuteDependedTasks" =>
                  \A w \in WorkerNames : schemas[w] \subseteq UNION Range(own)

\* Both backends are in the middle of their broadcasts, one creating and
\* one deleting, and a worker holds schemas of both jobs.
C12_Witness ==
    /\ other # <<>>
    /\ DisjointJobs
    /\ \A i \in DOMAIN Backends : MergeJobIdsOf(Backends[i]) # {}
    /\ step = "send" /\ toSend # NIL /\ Len(toSend) < Len(workerNodeList)
    /\ Body[stmt] = "RemoveTempJobDirs"
    /\ other[1].step = "send" /\ other[1].toSend # NIL
    /\ Len(other[1].toSend) < Len(other[1].workerNodeList)
    /\ \E w \in WorkerNames :
           /\ schemas[w] \cap MergeJobIdsOf(Backend) # {}
           /\ schemas[w] \cap MergeJobIdsOf(other[1]) # {}

\* The broadcasts of the running backend: the positions in the history of
\* its reads of the active node list; the sends of a broadcast follow its
\* read, up to the next call that is not a send.
Broadcasts == {a \in DOMAIN calls : calls[a].op = "ActiveReadableNodeList"}

SendsOf(a) ==
    {j \in DOMAIN calls : /\ j > a
                          /\ \A k \in (a + 1)..j : IsSend(calls[k])}

\* The broadcast that started at a has gone through its whole node list.
BroadcastOver(a) ==
    /\ \A j \in SendsOf(a) : calls[j].ok
    /\ \/ \E b \in DOMAIN calls : b > a /\ ~IsSend(calls[b])
       \/ ~(status = "running" /\ step = "send")

(***************************************************************************)
(* C13  Each broadcast (provisioning, temp-directory removal, global       *)
(* sweep) sends its command list to the workers of the active node list as *)
(* it was when the broadcast started, in the order of that list, and when  *)
(* it is over it has sent to every worker of that list and to no other:    *)
(* a membership change after provisioning shows in the removal broadcast.  *)
(***************************************************************************)
C13_BroadcastToListReadAtItsStart ==
    \A a \in Broadcasts :
        /\ \A j \in SendsOf(a) :
               /\ j - a <= Len(calls[a].nodes)
               /\ calls[j].worker = calls[a].nodes[j - a]
               /\ calls[j].commandList = calls[a].commandList
               /\ calls[j].during = calls[a].during
        /\ BroadcastOver(a) => Cardinality(SendsOf(a)) = Len(calls[a].nodes)

\* The removal broadcast is over and went to a list that is not the one
\* that was provisioned; the membership also changed during a broadcast.
C13_Witness ==
    /\ status = "returned"
    /\ \E a, b \in Broadcasts :
           /\ calls[a].during = "CreateTemporarySchemas"
           /\ calls[b].during = "RemoveTempJobDirs"
           /\ BroadcastOver(a) /\ BroadcastOver(b)
           /\ calls[a].nodes # NIL /\ calls[b].nodes # NIL
           /\ Range(calls[b].nodes) # Range(calls[a].nodes)
           /\ activeNodes # calls[b].nodes

(***************************************************************************)
(* C14  CleanUpSchemas run twice in a row.  The code sends the same        *)
(* command, which names no job id, to every worker of the active node list *)
(* on each call and keeps nothing between the calls (C13 covers the        *)
(* broadcast).  Whether a worker fails the command when it has no job      *)
(* schema left, and what the command leaves on the worker, is decided by   *)
(* the text of JOB_SCHEMA_CLEANUP and by the worker: no formula is stated. *)
(***************************************************************************)

\* Is t ready with respect to the completed set `completed`: every
\* dependency's key is in it and t's own key is not.
ReadyWith(t, completed) ==
    /\ \A d \in DependenciesOf(t) : FillTaskKey(task[d]) \in completed
    /\ FillTaskKey(task[t]) \notin completed

\* The tasks of allTasks that are ready with respect to `completed`, in scan
\* order.
ReadyList(completed) == SelectSeq(allTasks, LAMBDA t : ReadyWith(t, completed))

(***************************************************************************)
(* C15  Every batch found by a scan, and so every dispatched batch, is the *)
(* list of the tasks that were ready with respect to the completed set as  *)
(* it was when the scan began, in scan order.                              *)
(* The code does not do this: the scan enters the key of each ready task   *)
(* at once (see C1), so a task whose dependencies are found ready earlier  *)
(* in the same scan is in the batch too.                                   *)
(***************************************************************************)
C15_BatchIsReadyAtScanStart ==
    /\ \A k \in DOMAIN scanLog : scanLog[k].found = ReadyList(scanLog[k].before)
    /\ \A i \in DOMAIN Batches : \E k \in DOMAIN scanLog : Batches[i] = scanLog[k].found

(***************************************************************************)
(* C16  In the scheduler every key of the completed set is the key of a    *)
(* top level task or of a task of a batch whose ExecuteTaskList call has   *)
(* returned without error; the scan does not change the completed set.     *)
(* The code does not do this: IsTaskAlreadyCompleted enters the key of     *)
(* every task it finds ready, before the batch is given to the executor.   *)
(***************************************************************************)
C16_CompletedSetHoldsOnlyExecutedTasks ==
    InScheduler =>
        completedTasks \subseteq
            {FillTaskKey(task[t]) : t \in TopLevel} \cup
            {FillTaskKey(task[t]) :
                t \in UNION {Range(calls[i].tasks) :
                                i \in {j \in DOMAIN calls : /\ calls[j].op = "ExecuteTaskList"
                                                            /\ calls[j].ok}}}

ExecuteTaskListCalls == SelectSeq(calls, LAMBDA c : c.op = "ExecuteTaskList")

(***************************************************************************)
(* C17  At most one batch is with the executor at any time: a scan is made *)
(* and a batch is dispatched only when no batch is outstanding, and every  *)
(* ExecuteTaskList call before the latest has returned without error.      *)
(***************************************************************************)
C17_OneBatchOutstanding ==
    /\ Len(outstanding) <= 1
    /\ outstanding # <<>> => status = "running" /\ step = "executing"
    /\ (status = "running" /\ step \in {"scan", "dispatch"}) => outstanding = <<>>
    /\ \A i \in DOMAIN ExecuteTaskListCalls :
           i < Len(ExecuteTaskListCalls) + Len(outstanding) => ExecuteTaskListCalls[i].ok
    /\ Len(SelectSeq(scanLog, LAMBDA r : r.found # NIL)) =
           Len(ExecuteTaskListCalls) + Len(outstanding)
             + (IF status = "running" /\ step = "dispatch" THEN 1 ELSE 0)

\* The second batch is with the executor, the first has returned.
C17_Witness ==
    /\ outstanding # <<>>
    /\ Len(ExecuteTaskListCalls) >= 1
    /\ Range(Head(outstanding)) \cap Range(ExecuteTaskListCalls[1].tasks) = {}

\* The keys that can ever be in the completed set: those of the top level
\* tasks, and of every task of the collection all of whose dependencies have
\* such a key (least fixed point, reached within MaxTasks rounds).
RECURSIVE CompletableWithin(_, _)
CompletableWithin(keys, k) ==
    IF k = 0 THEN keys
    ELSE LET more == keys \cup
                         {FillTaskKey(task[t]) :
                             t \in {x \in Collection :
                                       \A d \in DependenciesOf(x) : FillTaskKey(task[d]) \in keys}}
         IN IF more = keys THEN keys ELSE CompletableWithin(more, k - 1)

Completable == CompletableWithin({FillTaskKey(task[t]) : t \in TopLevel}, MaxTasks)

\* The tasks that can never become ready: in a dependency cycle, depending
\* on a task that is neither top level nor in the collection, or depending
\* on such a task.
NeverReady ==
    LET keys == Completable
    IN {t \in Collection : FillTaskKey(task[t]) \notin keys}

Dispatched == Range(Flatten(Batches))

(***************************************************************************)
(* C18  With tasks that can never become ready the scheduler raises no     *)
(* error of its own: when it has returned, those tasks (and with them all  *)
(* that depend on them) have not been dispatched, every other task that is *)
(* not a top level task has been, and ExecuteDependedTasks goes on to the  *)
(* removal of the job directories as after a full success.                 *)
(***************************************************************************)
C18_NeverReadyTasksAreSkippedSilently ==
    /\ (InScheduler /\ status = "error") =>
           /\ errorKind = "execution"
           /\ ~ExecuteTaskListCalls[Len(ExecuteTaskListCalls)].ok
    /\ Batches # <<>> =>
           LET never == NeverReady
           IN /\ Dispatched \cap never = {}
              /\ StatementReturned("ExecuteTasksInDependencyOrder") =>
                     Dispatched = Collection \ (TopLevel \cup never)
    /\ StatementReturned("ExecuteTasksInDependencyOrder") =>
           /\ Batches = <<>> => Collection \ TopLevel \subseteq NeverReady
           /\ \A i \in DOMAIN ExecuteTaskListCalls : ExecuteTaskListCalls[i].ok
           /\ variant = "repartition_logic" =>
                  \/ At("RemoveTempJobDirs")
                  \/ \E i \in DOMAIN calls : /\ calls[i].op = "ActiveReadableNodeList"
                                             /\ calls[i].during = "RemoveTempJobDirs"
                                             /\ calls[i].commandList =
                                                    <<GenerateDeleteJobsCommand(jobIds)>>

\* A task in a cycle, a task waiting for a task outside the collection, a
\* task depending on one of them: none dispatched, another task dispatched,
\* and the removal broadcast is over.
C18_Witness ==
    /\ status = "returned"
    /\ variant = "repartition_logic"
    /\ \E t \in NeverReady : t \in TransitiveDependencies(t)
    /\ \E t \in NeverReady : ~(DependenciesOf(t) \subseteq Collection)
    /\ Dispatched # {}
    /\ Dispatched \cap NeverReady = {}
    /\ \E i \in DOMAIN calls : IsSend(calls[i]) /\ calls[i].during = "RemoveTempJobDirs"

(***************************************************************************)
(* C19  The draining loop ends: every scan but the last finds a batch,     *)
(* every batch holds only tasks whose keys were not in the completed set   *)
(* when the scan began, the completed set only grows from scan to scan,    *)
(* the loop is left at the first scan that finds no ready task, and there  *)
(* are at most (number of tasks + 1) scans, for cyclic collections too.    *)
(***************************************************************************)
C19_DrainingLoopTerminates ==
    /\ Len(scanLog) <= Len(allTasks) + 1
    /\ \A k \in DOMAIN scanLog :
           /\ \A t \in Range(scanLog[k].found) : FillTaskKey(task[t]) \notin scanLog[k].before
           /\ k < Len(scanLog) =>
                  /\ scanLog[k].found # NIL
                  /\ scanLog[k].before \subseteq scanLog[k + 1].before
                  /\ {FillTaskKey(task[t]) : t \in Range(scanLog[k].found)}
                         \subseteq scanLog[k + 1].before
           /\ k = Len(scanLog) =>
                  /\ scanLog[k].before \subseteq completedTasks
                  /\ scanLog[k].found = NIL =>
                         StatementReturned("ExecuteTasksInDependencyOrder")
    /\ InScheduler => (scanLog = <<>> \/ scanLog[Len(scanLog)].found # NIL)

\* The loop has ended after as many scans as there are tasks.
C19_Witness ==
    /\ StatementReturned("ExecuteTasksInDependencyOrder")
    /\ Len(allTasks) >= 3
    /\ Len(scanLog) = Len(allTasks)
    /\ scanLog[Len(scanLog)].found = NIL

\* A fetch task of the collection without exactly one dependency, or whose
\* dependency is not a map task.
MalformedFetchTask(t) ==
    /\ t \in FetchTasksOfCollection
    /\ IF Len(task[t].dependedTaskList) = 1
       THEN task[linitial(task[t].dependedTaskList)].taskType # "MAP_TASK"
       ELSE TRUE

(***************************************************************************)
(* C20  A fetch task without exactly one dependency, or whose dependency   *)
(* is not a map task, stops the run with a fatal fault in                  *)
(* PutMapOutputFetchQueryStrings: the statement does not return, no schema *)
(* is provisioned and no batch is dispatched.                              *)
(* The code does not do this: with more than one dependency the first is   *)
(* taken and nothing is checked; the type of the dependency is checked by  *)
(* an Assert only, which a production build does not contain; with no      *)
(* dependency the behaviour is undefined.                                  *)
(***************************************************************************)
C20_MalformedFetchTaskIsFatal ==
    (/\ entry = "ExecuteDependedTasks"
     /\ variant = "adaptive_executor"
     /\ \E t \in TaskIds : MalformedFetchTask(t)) =>
        /\ ~StatementReturned("PutMapOutputFetchQueryStrings")
        /\ status # "returned"
        /\ ~Provisioning
        /\ Batches = <<>>

\* The batches the while loop of ExecuteTasksInDependencyOrder dispatches for
\* the task list `tasks` when every ExecuteTaskList call returns: scan,
\* dispatch, AddCompletedTasks, until a scan finds nothing (at most k times).
RECURSIVE WavesOf(_, _, _, _)
WavesOf(heap, tasks, completed, k) ==
    LET r == ScanTasks(heap, tasks, NIL, completed)
    IN IF k = 0 \/ list_length(r.curTasks) = 0 THEN <<>>
       ELSE <<r.curTasks>> \o
            WavesOf(heap, tasks, AddCompletedTasks(heap, r.curTasks, r.completedTasks), k - 1)

\* The orderings of the task collection.
Orderings == {p \in SeqsNoDup(Collection, Len(allTasks)) : Len(p) = Len(allTasks)}

TaskSets(batches) == [i \in DOMAIN batches |-> Range(batches[i])]

(***************************************************************************)
(* C21  Which tasks are dispatched together does not depend on the order   *)
(* of the task collection: for a valid DAG, the batches of a run that has  *)
(* gone through the scheduler are, wave by wave and as sets of tasks, the  *)
(* batches the scheduler makes for every other ordering of the collection. *)
(* The code does not do this: a task scanned after its dependencies joins  *)
(* their batch (see C1), a task scanned before them waits for a later one. *)
(***************************************************************************)
C21_BatchesIndependentOfOrder ==
    (StatementReturned("ExecuteTasksInDependencyOrder") /\ ValidDag) =>
        \A p \in Orderings :
            TaskSets(WavesOf(task, p, AddCompletedTasks(task, topLevelTasks, {}),
                             Len(allTasks)))
                = TaskSets(Batches)


(***************************************************************************)
(* C22  In a run of ExecuteDependedTasks of adaptive_executor_             *)
(* repartioning.c the queryString of every fetch task of the collection    *)
(* has been assigned exactly once when the first provisioning broadcast    *)
(* starts and when the first batch is dispatched, and is not assigned      *)
(* again afterwards.  No step of a run assigns the queryString of a task   *)
(* that is not a fetch task, changes the jobId, taskId, taskType,          *)
(* dependedTaskList or taskPlacementList of any task, creates or destroys  *)
(* a task, or changes the task list once it has been read.                 *)
(***************************************************************************)
Dispatching == Batches # <<>> \/ outstanding # <<>>

QueryStringsAssignedOnce ==
    /\ \A i, j \in DOMAIN writes : i # j => writes[i] # writes[j]
    /\ \A i \in DOMAIN writes : writes[i] \in FetchTasksOfCollection
    /\ (variant = "adaptive_executor" /\ (Provisioning \/ Dispatching)) =>
           \A t \in FetchTasksOfCollection : Occurrences(writes, t) = 1

TasksKept ==
    /\ DOMAIN task' = DOMAIN task
    /\ \A t \in DOMAIN task :
           /\ task'[t] = [task[t] EXCEPT !.queryString = task'[t].queryString]
           /\ task'[t].queryString # task[t].queryString =>
                  /\ task[t].taskType = "MAP_OUTPUT_FETCH_TASK"
                  /\ writes' = Append(writes, t)
    /\ writes' # writes =>
           /\ At("PutMapOutputFetchQueryStrings")
           /\ ~Provisioning
           /\ ~Dispatching
    /\ allTasks' # allTasks => At("TaskAndExecutionList")
    /\ StatementReturned("TaskAndExecutionList") => allTasks = taskAndExecutionList

C22_TasksImmutableButFetchCommand ==
    /\ []QueryStringsAssignedOnce
    /\ [][self' = self => TasksKept]_vars

C22_Witness ==
    /\ variant = "adaptive_executor"
    /\ status = "running"
    /\ Provisioning
    /\ Len(Batches) >= 2
    /\ Cardinality(FetchTasksOfCollection) >= 2
    /\ Len(writes) >= 2
    /\ \A t \in FetchTasksOfCollection :
           /\ Occurrences(writes, t) = 1
           /\ task[t].queryString # Task(task[t].jobId, task[t].taskId, "MAP_OUTPUT_FETCH_TASK",
                                         NIL, NIL, 0, 0).queryString
    /\ \E t \in Collection \ FetchTasksOfCollection :
           task[t].queryString = Task(task[t].jobId, task[t].taskId, "MERGE_TASK",
                                      NIL, NIL, 0, 0).queryString


(***************************************************************************)
(* C23  Each provisioning broadcast sends one command list per worker of   *)
(* the active readable node list: the list has one command, the create     *)
(* statements of all job ids concatenated, and is run in a single          *)
(* transaction as the extension owner.  When the broadcast is over every   *)
(* worker of the list was sent to exactly once.  This holds for any number *)
(* of job ids: without merge tasks the command is the empty string and     *)
(* every worker is still sent to once.                                     *)
(***************************************************************************)
ProvisioningBroadcasts == {a \in Broadcasts : calls[a].during = "CreateTemporarySchemas"}

SendsTo(a, w) == {j \in SendsOf(a) : calls[j].worker = w}

EmptyCommandString == <<>>

C23_OneCreateBatchPerWorker ==
    \A a \in ProvisioningBroadcasts :
        LET sends == SendsOf(a)
            batch == StatementsOf("WORKER_CREATE_SCHEMA_QUERY", jobIds)
        IN /\ mergeTasks = NIL => batch = EmptyCommandString
           /\ \A j \in sends :
                  /\ calls[j].op = "SendCommandListToWorkerInSingleTransaction"
                  /\ calls[j].user = "CitusExtensionOwnerName"
                  /\ list_length(calls[j].commandList) = 1
                  /\ linitial(calls[j].commandList) = batch
                  /\ calls[j].worker \in Range(calls[a].nodes)
                  /\ \A k \in sends : calls[k].worker = calls[j].worker => k = j
           /\ BroadcastOver(a) =>
                  \A w \in Range(calls[a].nodes) : Cardinality(SendsTo(a, w)) = 1

\* Without merge tasks: the broadcast is over and every one of several
\* workers got the empty command once.
C23_Witness ==
    /\ mergeTasks = NIL
    /\ StatementReturned("CreateTemporarySchemas")
    /\ \E a \in ProvisioningBroadcasts :
           /\ BroadcastOver(a)
           /\ Len(calls[a].nodes) >= 2
           /\ \A w \in Range(calls[a].nodes) :
                  \E j \in SendsOf(a) : /\ calls[j].worker = w
                                        /\ calls[j].ok
                                        /\ calls[j].commandList = <<EmptyCommandString>>

\* The same with several job ids.
C23_WitnessSeveralJobs ==
    /\ Len(jobIds) >= 2
    /\ StatementReturned("CreateTemporarySchemas")
    /\ \E a \in ProvisioningBroadcasts :
           /\ BroadcastOver(a)
           /\ Len(calls[a].nodes) >= 2
           /\ \A w \in Range(calls[a].nodes) :
                  \E j \in SendsOf(a) : /\ calls[j].worker = w
                                        /\ calls[j].ok
                                        /\ Len(linitial(calls[j].commandList)) = Len(jobIds)


(***************************************************************************)
(* C24  After FillTaskGroups the merge group is the tasks of the task list *)
(* whose taskType is MERGE_TASK and the fetch group (of the FillTaskGroups *)
(* that has one, in adaptive_executor_repartioning.c) the tasks whose      *)
(* taskType is MAP_OUTPUT_FETCH_TASK, each in the order of the task list.  *)
(* No task is in both groups, a task of another type is in neither, and    *)
(* the task list is as it was.                                             *)
(***************************************************************************)
OfType(type) == SelectSeq(allTasks, LAMBDA t : task[t].taskType = type)

C24_GroupsAreSubsequencesByType ==
    StatementReturned("FillTaskGroups") =>
        /\ mergeTasks = OfType("MERGE_TASK")
        /\ variant = "adaptive_executor" => mapOutputFetchTasks = OfType("MAP_OUTPUT_FETCH_TASK")
        /\ Range(mapOutputFetchTasks) \cap Range(mergeTasks) = {}
        /\ \A t \in Range(allTasks) :
               task[t].taskType \notin {"MAP_OUTPUT_FETCH_TASK", "MERGE_TASK"} =>
                   t \notin Range(mapOutputFetchTasks) \cup Range(mergeTasks)
        /\ allTasks = taskAndExecutionList

\* Both groups have tasks, one has several, the list is not in the order of
\* the task ids and holds tasks of other types.
C24_Witness ==
    /\ variant = "adaptive_executor"
    /\ StatementReturned("FillTaskGroups")
    /\ Len(mapOutputFetchTasks) + Len(mergeTasks) >= 2
    /\ \E i, j \in DOMAIN allTasks : i < j /\ allTasks[i] > allTasks[j]
    /\ \E t \in Range(allTasks) : task[t].taskType = "MAP_TASK"
    /\ \/ Len(mapOutputFetchTasks) >= 2
       \/ mapOutputFetchTasks # NIL /\ mergeTasks # NIL

=============================================================================
